---- MODULE Spec2Model ----
(***************************************************************************)
(* A model of the manifest resolution-and-fetch pipeline of the bot:       *)
(*   src/src/network/github.py  GitHubAPI (check_rate_limit,               *)
(*                              get_latest_repo_info, fetch_file)          *)
(*   src/bot.py                 AutoSelectOnekeyApp (run,                  *)
(*                              handle_depot_files), send_manifests,       *)
(*                              cmd_manifest                               *)
(* Every coroutine is cut at its await points: one action is the code that *)
(* runs between two suspensions of the event loop.  A task is one          *)
(* invocation (a /manifest command, or a direct call of run, of            *)
(* get_latest_repo_info or of fetch_file).                                 *)
(***************************************************************************)
EXTENDS Integers, Sequences, FiniteSets, TLC

(***************************************************************************)
(* Bounds of the model.                                                    *)
(***************************************************************************)
NumRepos == 2        \* candidate repositories that exist
NumCommits == 3      \* commits (shas) that exist on the hosting platform
NumCnCdn == 3        \* length of CN_CDN_LIST
NumGlobalCdn == 1    \* length of GLOBAL_CDN_LIST
MaxTree == 3         \* longest tree listing drawn in the tree-walk specification

\* range(3) of fetch_file
FetchRounds == 3
\* rate_limit.get("limit", 60)
DefaultLimit == 60

Tasks == {1, 2}
Repos == 1 .. NumRepos
Shas == 1 .. NumCommits

(***************************************************************************)
(* Sequence helpers.                                                       *)
(***************************************************************************)
Range(s) == {s[i] : i \in DOMAIN s}

IsInjective(s) == \A i, j \in DOMAIN s : s[i] = s[j] => i = j

\* all sequences over S of length at most n without a repeated element
RECURSIVE InjSeqs(_, _)
InjSeqs(S, n) ==
    IF n = 0 THEN {<<>>}
    ELSE LET shorter == InjSeqs(S, n - 1)
             longest == {q \in shorter : Len(q) = n - 1}
         IN  shorter \cup UNION {{Append(q, x) : x \in S \ Range(q)} : q \in longest}

(***************************************************************************)
(* File names.  A path is its stem, a sequence of characters, and its      *)
(* extension.                                                              *)
(***************************************************************************)
Digits == {"0", "1", "2", "3", "4", "5", "6", "7", "8", "9"}

DigitVal(c) ==
    CASE c = "0" -> 0 [] c = "1" -> 1 [] c = "2" -> 2 [] c = "3" -> 3
      [] c = "4" -> 4 [] c = "5" -> 5 [] c = "6" -> 6 [] c = "7" -> 7
      [] c = "8" -> 8 [] c = "9" -> 9

ManifestPath(stem) == [stem |-> stem, ext |-> "manifest"]

P_1000_50 == ManifestPath(<<"1", "0", "0", "0", "_", "5", "0">>)
P_1000_75 == ManifestPath(<<"1", "0", "0", "0", "_", "7", "5">>)
P_1000_60 == ManifestPath(<<"1", "0", "0", "0", "_", "6", "0">>)
P_1000_050 == ManifestPath(<<"1", "0", "0", "0", "_", "0", "5", "0">>)
P_2_9 == ManifestPath(<<"2", "_", "9">>)
P_readme == ManifestPath(<<"r", "e", "a", "d", "m", "e">>)
P_1000 == ManifestPath(<<"1", "0", "0", "0">>)
P_key == [stem |-> <<"k", "e", "y">>, ext |-> "vdf"]
P_Key == [stem |-> <<"K", "e", "y">>, ext |-> "vdf"]
P_txt == [stem |-> <<"r", "e", "a", "d", "m", "e">>, ext |-> "txt"]

Paths == {P_1000_50, P_1000_75, P_1000_60, P_1000_050, P_2_9, P_readme, P_1000,
          P_key, P_Key, P_txt}

\* file_path.endswith(".manifest")
IsManifestPath(p) == p.ext = "manifest"

Lower(c) == IF c = "K" THEN "k" ELSE c

\* "key.vdf" in file_path.lower()
IsKeyPath(p) ==
    /\ p.ext = "vdf"
    /\ Len(p.stem) >= 3
    /\ LET n == Len(p.stem)
       IN  <<Lower(p.stem[n - 2]), Lower(p.stem[n - 1]), Lower(p.stem[n])>> = <<"k", "e", "y">>

(***************************************************************************)
(* parse_manifest_filename (src.utils.steam): "<depotId>_<manifestId>      *)
(* .manifest", two numeric-string tokens; a result of <<>> is (None, None).*)
(***************************************************************************)
AllDigits(s) == Len(s) > 0 /\ \A i \in DOMAIN s : s[i] \in Digits

\* position of the first "_" of the stem, 0 when there is none
FirstUnderscore(s) ==
    IF \E i \in DOMAIN s : s[i] = "_"
    THEN CHOOSE i \in DOMAIN s : s[i] = "_" /\ \A j \in 1 .. (i - 1) : s[j] # "_"
    ELSE 0

parse_manifest_filename(p) ==
    IF ~IsManifestPath(p) THEN <<>>
    ELSE LET u == FirstUnderscore(p.stem)
             depot == SubSeq(p.stem, 1, u - 1)
             manifest == SubSeq(p.stem, u + 1, Len(p.stem))
         IN  IF u # 0 /\ AllDigits(depot) /\ AllDigits(manifest)
             THEN <<depot, manifest>>
             ELSE <<>>

\* int(x) of a numeric string
RECURSIVE int(_)
int(x) ==
    IF Len(x) = 0 THEN 0
    ELSE int(SubSeq(x, 1, Len(x) - 1)) * 10 + DigitVal(x[Len(x)])

\* the sort key of line 120
SortKey(x) == int(x)

\* x is placed before the elements of the sorted sequence that it must precede:
\* list.sort(key=..., reverse=True) is stable, equal keys keep their order
RECURSIVE InsertDesc(_, _)
InsertDesc(sorted, x) ==
    IF sorted = <<>> THEN <<x>>
    ELSE IF SortKey(x) > SortKey(sorted[Len(sorted)])
         THEN Append(InsertDesc(SubSeq(sorted, 1, Len(sorted) - 1), x), sorted[Len(sorted)])
         ELSE Append(sorted, x)

\* depot_map[depot_id].sort(key=lambda x: int(x), reverse=True)
RECURSIVE SortDesc(_)
SortDesc(s) ==
    IF s = <<>> THEN <<>>
    ELSE InsertDesc(SortDesc(SubSeq(s, 1, Len(s) - 1)), s[Len(s)])

\* depot_map.setdefault(depot_id, []).append(manifest_id)
MapAppend(depot_map, depot_id, manifest_id) ==
    IF depot_id \in DOMAIN depot_map
    THEN [depot_map EXCEPT ![depot_id] = Append(@, manifest_id)]
    ELSE [d \in DOMAIN depot_map \cup {depot_id} |->
            IF d = depot_id THEN <<manifest_id>> ELSE depot_map[d]]

\* the test of line 112 left out: a name that does not parse is entered
\* under its own stem
AddManifest_Unchecked(depot_map, file_path) ==
    LET parsed == parse_manifest_filename(file_path)
    IN  IF parsed # <<>>
        THEN MapAppend(depot_map, parsed[1], parsed[2])
        ELSE MapAppend(depot_map, file_path.stem, <<"0">>)

\* lines 111-113: the depot map after the tree entry file_path
AddManifest(depot_map, file_path) ==
    LET parsed == parse_manifest_filename(file_path)
    IN  IF parsed # <<>> /\ parsed[1] # <<>> /\ parsed[2] # <<>>
        THEN MapAppend(depot_map, parsed[1], parsed[2])
        ELSE depot_map

\* the final sort left out
SortDepotMap_NoSort(depot_map) == depot_map

\* lines 119-120
SortDepotMap(depot_map) == [d \in DOMAIN depot_map |-> SortDesc(depot_map[d])]

EmptyMap == [d \in {} |-> <<>>]

(***************************************************************************)
(* The hosting platform.  A blob is named by its commit and its path, and  *)
(* its bytes are modelled by that name.  The key file of a commit is a     *)
(* list of depot sections, each with or without a DecryptionKey field.     *)
(***************************************************************************)
Blob(sha, path) == [sha |-> sha, path |-> path]

NoBytes == [sha |-> 0, path |-> P_txt]

\* the text of a key file: key.vdf holds one section with a key and one
\* without, Key.vdf holds no section with a key
KeyFileText(content) ==
    IF content.path = P_key
    THEN <<[depot |-> <<"1", "0", "0", "0">>, DecryptionKey |-> <<"k", content.sha>>],
           [depot |-> <<"2">>, DecryptionKey |-> <<>>]>>
    ELSE IF content.path = P_Key
         THEN <<[depot |-> <<"2">>, DecryptionKey |-> <<>>]>>
         ELSE <<>>

\* parse_key_file (src.utils.steam): one DepotInfo per section that has a key
RECURSIVE KeySections(_)
KeySections(text) ==
    IF text = <<>> THEN <<>>
    ELSE LET rest == KeySections(Tail(text))
         IN  IF Head(text).DecryptionKey # <<>>
             THEN <<[depot_id |-> Head(text).depot, decryption_key |-> Head(text).DecryptionKey]>> \o rest
             ELSE rest

parse_key_file(content) == KeySections(KeyFileText(content))

\* commit.commit.author.date of a commit, as the API prints it: commits 2 and 3
\* carry the same date
CommitDateStr(sha) == [day |-> sha \div 2, hour |-> 12, zone |-> "Z"]

\* datetime.fromisoformat(date_str.replace("Z", "+00:00")), in hours
FromIsoFormat(date_str) == date_str.day * 24 + date_str.hour

(***************************************************************************)
(* State.                                                                  *)
(*   repo_list         REPO_LIST, the ordered candidate repositories       *)
(*   head              the commit of each repository's branch named by the *)
(*                     application id, 0 when it has no such branch        *)
(*   tree_of           the tree listing of each commit                     *)
(*   is_cn             GitHubAPI.is_cn                                     *)
(*   fs                the manifests directory: the bytes at each path,    *)
(*                     NoBytes where there is no file                      *)
(*   downloaded_files  AutoSelectOnekeyApp.downloaded_files                *)
(*   pc, entry         where each task is suspended, and what it was       *)
(*                     called as                                           *)
(*   sel, walk, fetch  the locals of get_latest_repo_info, of              *)
(*                     handle_depot_files and of fetch_file; sel.queried   *)
(*                     and sel.answered keep the candidates queried and    *)
(*                     the complete 200 answers got, fetch.log the         *)
(*                     endpoints requested                                 *)
(*   out               what the task has returned, raised and sent;        *)
(*                     out.calls keeps the paths fetch_file was called on  *)
(*                     and out.written the paths written, in this          *)
(*                     invocation                                          *)
(***************************************************************************)
VARIABLES repo_list, head, tree_of, is_cn, fs, downloaded_files,
          pc, entry, sel, walk, fetch, out

world == <<repo_list, head, tree_of>>
shared == <<is_cn, fs, downloaded_files>>
locals == <<pc, entry, sel, walk, fetch, out>>
vars == <<repo_list, head, tree_of, is_cn, fs, downloaded_files,
          pc, entry, sel, walk, fetch, out>>

\* CN_CDN_LIST and GLOBAL_CDN_LIST (src.constants): two disjoint ranked lists
CN_CDN_LIST == [i \in 1 .. NumCnCdn |-> <<"cn", i>>]
GLOBAL_CDN_LIST == [i \in 1 .. NumGlobalCdn |-> <<"global", i>>]

Exists(fsv, p) == fsv[p] # NoBytes

NoError == [text |-> "none", code |-> 0, path |-> P_txt]
StatusError(code) == [text |-> "GitHub rate limit check failed with status", code |-> code, path |-> P_txt]
CheckError(e) == [text |-> "Rate limit check failed", code |-> e, path |-> P_txt]
\* Exception(f"无法下载文件: {path}")
UnavailableError(path) == [text |-> "cannot download file", code |-> 0, path |-> path]
\* what raise_for_status or the transport raises
HttpError(code) == [text |-> "http error", code |-> code, path |-> P_txt]

NoRepoInfo == [name |-> 0, last_update |-> -1, sha |-> 0]
NoLimitMsg == [text |-> "none", used |-> 0, limit |-> 0, remaining |-> 0, reset |-> 0, exhausted |-> FALSE]

SelInit == [repos |-> <<>>, i |-> 0, latest_date |-> -1, selected_repo |-> 0, selected_sha |-> 0, queried |-> <<>>,
            answered |-> <<>>]
WalkInit == [tree |-> <<>>, tree_sha |-> 0, k |-> 0, depot_list |-> <<>>, depot_map |-> EmptyMap]
FetchInit == [repo |-> 0, sha |-> 0, path |-> P_txt, purpose |-> "none",
              cdn_list |-> <<>>, round |-> 0, idx |-> 0, log |-> <<>>, last |-> -1]
OutInit == [rate_info |-> [none |-> TRUE],
            rate_answer |-> "none",
            rate_resp |-> [kind |-> "none", status_code |-> 0,
                           body |-> [shape |-> "none", rate |-> [f \in {} |-> 0]]],
            limit_msg |-> NoLimitMsg,
            repo_info |-> NoRepoInfo,
            selected |-> "none",
            handle |-> [status |-> "none", depot_list |-> <<>>, depot_map |-> EmptyMap],
            ret |-> [status |-> "none", success |-> FALSE, files |-> {}],
            fetched |-> [status |-> "none", content |-> NoBytes],
            raised |-> NoError,
            calls |-> {},
            written |-> {},
            msgs |-> <<>>]

\* everything one step of a task may read and write
Ctx(t) == [pc |-> pc[t], entry |-> entry[t], sel |-> sel[t], walk |-> walk[t],
           fetch |-> fetch[t], out |-> out[t],
           is_cn |-> is_cn, fs |-> fs, downloaded_files |-> downloaded_files]

\* the step of task t that leads to context c
Commit(t, c) ==
    /\ pc' = [pc EXCEPT ![t] = c.pc]
    /\ entry' = [entry EXCEPT ![t] = c.entry]
    /\ sel' = [sel EXCEPT ![t] = c.sel]
    /\ walk' = [walk EXCEPT ![t] = c.walk]
    /\ fetch' = [fetch EXCEPT ![t] = c.fetch]
    /\ out' = [out EXCEPT ![t] = c.out]
    /\ is_cn' = c.is_cn
    /\ fs' = c.fs
    /\ downloaded_files' = c.downloaded_files
    /\ UNCHANGED world

(***************************************************************************)
(* cmd_manifest and run, after the pipeline.                               *)
(***************************************************************************)
Message(kind, limit_msg, files) ==
    [kind |-> kind, limit_msg |-> limit_msg, files |-> files, error |-> NoError]

\* cmd_manifest, lines 252-254: an exception that reaches the command
CmdExcept(c, e) ==
    [c EXCEPT !.pc = "done",
              !.out.raised = e,
              !.out.msgs = Append(@, [Message("Error processing AppID", NoLimitMsg, {})
                                         EXCEPT !.error = e])]

\* send_manifests, bot.py lines 151-196: the files that exist are sent
send_manifests(c, files) ==
    LET valid_files == {f \in files : Exists(c.fs, f)}
    IN  IF files = {} THEN <<Message("No manifest files found", NoLimitMsg, {})>>
        ELSE IF valid_files = {} THEN <<Message("No valid manifest files found", NoLimitMsg, {})>>
        ELSE <<Message("Here are your manifest files", NoLimitMsg, valid_files)>>

\* cmd_manifest, lines 240-250: what the command sends once run has returned
CmdAfterRun(c) ==
    LET manifest_files == c.out.ret.files
    IN  IF manifest_files = {}
        THEN [c EXCEPT !.pc = "done",
                       !.out.msgs = Append(@, Message("No manifest files were found", c.out.limit_msg, {}))]
        ELSE [c EXCEPT !.pc = "done",
                       !.out.msgs = @ \o send_manifests(c, manifest_files)
                                      \o <<Message("Successfully processed", c.out.limit_msg, manifest_files)>>]

\* run returns (success, files) to its caller
RunReturn(c, success, files) ==
    LET r == [c EXCEPT !.out.ret = [status |-> "returned", success |-> success, files |-> files]]
    IN  IF c.entry = "cmd" THEN CmdAfterRun(r) ELSE [r EXCEPT !.pc = "done"]

\* a rollback added to the except of lines 70-72: what the run wrote is
\* unlinked
RunExcept_Rollback(c, e) ==
    RunReturn([c EXCEPT !.out.raised = e,
                        !.fs = [p \in DOMAIN c.fs |->
                                  IF p \in c.out.written THEN NoBytes ELSE c.fs[p]]],
              FALSE, {})

\* run, lines 70-72: any exception is logged and (False, []) returned
RunExcept(c, e) == RunReturn([c EXCEPT !.out.raised = e], FALSE, {})

\* an exception leaves handle_depot_files
HandleRaise(c, e) == RunExcept([c EXCEPT !.out.handle.status = "raised"], e)

\* run, lines 60-68: the tracked files that exist, once SteamTools.setup returned
SetupReturn(c, success) ==
    RunReturn(c, success, {f \in c.downloaded_files : Exists(c.fs, f)})

\* the test of lines 47-49 left out: SteamTools.setup is called whatever the
\* depot-key list holds
HandleReturn_NoCheck(c) ==
    [c EXCEPT !.out.handle = [status |-> "returned",
                              depot_list |-> c.walk.depot_list,
                              depot_map |-> c.walk.depot_map],
              !.pc = "setup_wait"]

\* run, lines 45-58: handle_depot_files returned (depot_list, depot_map)
HandleReturn(c) ==
    LET r == [c EXCEPT !.out.handle = [status |-> "returned",
                                        depot_list |-> c.walk.depot_list,
                                        depot_map |-> c.walk.depot_map]]
    IN  IF c.walk.depot_list = <<>>
        THEN RunReturn(r, FALSE, {})
        ELSE [r EXCEPT !.pc = "setup_wait"]

(***************************************************************************)
(* fetch_file, github.py lines 90-104.                                     *)
(***************************************************************************)
\* line 92
CdnList(c) == IF c.is_cn THEN CN_CDN_LIST ELSE GLOBAL_CDN_LIST

\* lines 94-98: the first request of a call of fetch_file(repo, sha, path)
FetchCall(c, repo, sha, path, purpose) ==
    [c EXCEPT !.pc = "fetch_wait",
              !.out.calls = @ \cup {path},
              !.fetch = [repo |-> repo, sha |-> sha, path |-> path, purpose |-> purpose,
                         cdn_list |-> CdnList(c), round |-> 1, idx |-> 1,
                         log |-> <<CdnList(c)[1]>>, last |-> -1]]

\* a loop of one round too few
FetchExhausted_TwoRounds(f) == f.idx = Len(f.cdn_list) /\ f.round = FetchRounds - 1

\* lines 94-95: whether a request follows the one that failed
FetchExhausted(f) == f.idx = Len(f.cdn_list) /\ f.round = FetchRounds

\* the loops nested the other way round: each endpoint three times in a row
FetchNext_EndpointFirst(f) ==
    LET idx == IF f.round < FetchRounds THEN f.idx ELSE f.idx + 1
        round == IF f.round < FetchRounds THEN f.round + 1 ELSE 1
    IN  [f EXCEPT !.round = round, !.idx = idx, !.log = Append(@, f.cdn_list[idx])]

\* lines 94-98: the request that follows the one that failed
FetchNext(f) ==
    LET round == IF f.idx < Len(f.cdn_list) THEN f.round ELSE f.round + 1
        idx == IF f.idx < Len(f.cdn_list) THEN f.idx + 1 ELSE 1
    IN  [f EXCEPT !.round = round, !.idx = idx, !.log = Append(@, f.cdn_list[idx])]

\* what a mirror may answer to a request for the file path of commit sha
CdnResponses(trees, sha, path) ==
    {[kind |-> "error", status_code |-> 0, content |-> NoBytes],
     [kind |-> "response", status_code |-> 404, content |-> NoBytes]}
    \cup (IF sha \in DOMAIN trees /\ path \in Range(trees[sha])
          THEN {[kind |-> "response", status_code |-> 200, content |-> Blob(sha, path)]}
          ELSE {})

(***************************************************************************)
(* handle_depot_files, bot.py lines 98-122: the tree walk.                 *)
(***************************************************************************)
\* the existence check left out
AlreadyPresent_Never(c, file_path) == FALSE

\* line 103: save_path.exists()
AlreadyPresent(c, file_path) == Exists(c.fs, file_path)

\* lines 111-113 moved under the else of line 105: a skipped manifest is not
\* parsed
SkipExisting_NotParsed(c, file_path) == [c EXCEPT !.walk.k = @ + 1]

\* lines 103-104 and 111-113: a manifest that is already there is not fetched,
\* and its name is parsed into the depot map
SkipExisting(c, file_path) ==
    [c EXCEPT !.walk.k = @ + 1, !.walk.depot_map = AddManifest(@, file_path)]

\* lines 98-122, from tree entry k on, up to the next fetch or to the return
RECURSIVE WalkAdvance(_)
WalkAdvance(c) ==
    IF c.walk.k > Len(c.walk.tree)
    THEN HandleReturn([c EXCEPT !.walk.depot_map = SortDepotMap(@)])
    ELSE LET file_path == c.walk.tree[c.walk.k]
         IN  IF IsManifestPath(file_path)
             THEN IF AlreadyPresent(c, file_path)
                  THEN WalkAdvance(SkipExisting(c, file_path))
                  ELSE FetchCall(c, c.out.repo_info.name, c.out.repo_info.sha, file_path, "manifest")
             ELSE IF IsKeyPath(file_path)
                  THEN FetchCall(c, c.out.repo_info.name, c.out.repo_info.sha, file_path, "key")
                  ELSE WalkAdvance([c EXCEPT !.walk.k = @ + 1])

\* line 107 left out: the path is tracked and nothing is written
ManifestFetched_NotWritten(c, content) ==
    LET file_path == c.fetch.path
    IN  [c EXCEPT !.downloaded_files = @ \cup {file_path},
                  !.out.written = @ \cup {file_path},
                  !.walk.depot_map = AddManifest(@, file_path),
                  !.walk.k = @ + 1]

\* lines 107-113: the manifest bytes are written and the path is tracked
ManifestFetched(c, content) ==
    LET file_path == c.fetch.path
    IN  [c EXCEPT !.fs = [@ EXCEPT ![file_path] = content],
                  !.downloaded_files = @ \cup {file_path},
                  !.out.written = @ \cup {file_path},
                  !.walk.depot_map = AddManifest(@, file_path),
                  !.walk.k = @ + 1]

\* line 117
KeyFetched(c, content) ==
    [c EXCEPT !.walk.depot_list = @ \o parse_key_file(content),
              !.walk.k = @ + 1]

\* fetch_file returns content to the code that called it
FetchReturned(c, content) ==
    LET r == [c EXCEPT !.out.fetched = [status |-> "returned", content |-> content]]
    IN  CASE c.fetch.purpose = "manifest" -> WalkAdvance(ManifestFetched(r, content))
          [] c.fetch.purpose = "key" -> WalkAdvance(KeyFetched(r, content))
          [] OTHER -> [r EXCEPT !.pc = "done"]

\* the fetch of lines 106 and 116 made best-effort: a file that cannot be
\* had is passed over and the walk goes on
FetchRaised_BestEffort(c) ==
    LET r == [c EXCEPT !.out.fetched = [status |-> "raised", content |-> NoBytes]]
    IN  IF c.fetch.purpose \in {"manifest", "key"}
        THEN WalkAdvance([r EXCEPT !.walk.k = @ + 1])
        ELSE [r EXCEPT !.pc = "done", !.out.raised = UnavailableError(c.fetch.path)]

\* line 104: fetch_file raises
FetchRaised(c) ==
    LET e == UnavailableError(c.fetch.path)
        r == [c EXCEPT !.out.fetched = [status |-> "raised", content |-> NoBytes]]
    IN  IF c.fetch.purpose \in {"manifest", "key"}
        THEN HandleRaise(r, e)
        ELSE [r EXCEPT !.pc = "done", !.out.raised = e]

\* line 99
IsSuccess(resp) == resp.kind = "response" /\ resp.status_code = 200

\* lines 98-104: the answer resp to the request in flight; fetch.last keeps
\* its status (0 for a transport error)
OnFetchResponse(c, resp) ==
    LET r == [c EXCEPT !.fetch.last = resp.status_code]
    IN  IF IsSuccess(resp)
        THEN FetchReturned(r, resp.content)
        ELSE IF FetchExhausted(r.fetch)
             THEN FetchRaised(r)
             ELSE [r EXCEPT !.fetch = FetchNext(@)]

(***************************************************************************)
(* handle_depot_files, bot.py lines 90-96: the branch and the tree.        *)
(***************************************************************************)
\* what the API may answer to the branch query of line 91: the tree url of
\* the branch's commit as it is now, or a failure
BranchResponses(heads, repo) ==
    {[kind |-> "error", status_code |-> 0, tree_sha |-> 0],
     [kind |-> "response", status_code |-> 403, tree_sha |-> 0]}
    \cup (IF repo \in DOMAIN heads /\ heads[repo] # 0
          THEN {[kind |-> "response", status_code |-> 200, tree_sha |-> heads[repo]]}
          ELSE {[kind |-> "response", status_code |-> 404, tree_sha |-> 0]})

\* lines 91-95
OnBranchResponse(c, resp) ==
    IF resp.kind = "response" /\ resp.status_code = 200
    THEN [c EXCEPT !.pc = "tree_wait", !.walk.tree_sha = resp.tree_sha]
    ELSE HandleRaise(c, HttpError(resp.status_code))

\* what the API may answer to the tree query of line 95
TreeResponses(trees, sha) ==
    {[kind |-> "error", status_code |-> 0, tree |-> <<>>],
     [kind |-> "response", status_code |-> 403, tree |-> <<>>],
     [kind |-> "response", status_code |-> 200, tree |-> trees[sha]]}

\* lines 95-98
OnTreeResponse(c, resp) ==
    IF resp.kind = "response" /\ resp.status_code = 200
    THEN WalkAdvance([c EXCEPT !.walk.tree = resp.tree, !.walk.k = 1])
    ELSE HandleRaise(c, HttpError(resp.status_code))

(***************************************************************************)
(* get_latest_repo_info, github.py lines 60-88.                            *)
(***************************************************************************)
BranchBody(shape, sha) == [shape |-> shape, sha |-> sha, date |-> CommitDateStr(sha)]

\* what the API may answer to the branch query of line 71.  A 200 body is the
\* branch ("ok"), or lacks "commit", or lacks the author date, or lacks the
\* commit's "sha", or is no JSON.
SelResponses(heads, repo) ==
    {[kind |-> "error", status_code |-> 0, body |-> BranchBody("none", 0)],
     [kind |-> "response", status_code |-> 403, body |-> BranchBody("none", 0)]}
    \cup (IF repo \in DOMAIN heads /\ heads[repo] # 0
          THEN {[kind |-> "response", status_code |-> 200, body |-> BranchBody(shape, heads[repo])] :
                   shape \in {"ok", "no_commit", "no_date", "no_sha", "not_json"}}
          ELSE {[kind |-> "response", status_code |-> 404, body |-> BranchBody("none", 0)]})

\* the comparison turned round
Newer_Older(date, latest_date) == latest_date = -1 \/ date < latest_date

\* >= in the place of > on line 77
Newer_OrEqual(date, latest_date) == latest_date = -1 \/ date >= latest_date

\* line 77
Newer(date, latest_date) == latest_date = -1 \/ date > latest_date

\* lines 70-82: the locals after the answer resp of candidate repo
SelUpdate(s, repo, resp) ==
    IF resp.kind = "error" \/ resp.status_code # 200 THEN s
    ELSE IF resp.body.shape \in {"not_json", "no_commit", "no_date"} THEN s
    ELSE LET date == FromIsoFormat(resp.body.date)
         IN  IF ~Newer(date, s.latest_date) THEN s
             ELSE IF resp.body.shape = "no_sha"
                  THEN [s EXCEPT !.latest_date = date, !.selected_repo = repo]
                  ELSE [s EXCEPT !.latest_date = date, !.selected_repo = repo,
                                 !.selected_sha = resp.body.sha]

\* lines 84-88
RepoInfoOf(s) ==
    IF s.selected_repo # 0
    THEN [name |-> s.selected_repo, last_update |-> s.latest_date, sha |-> s.selected_sha]
    ELSE NoRepoInfo

\* lines 68-71: the first branch query of get_latest_repo_info(repos, app_id)
SelectCall(c, repos) ==
    [c EXCEPT !.pc = "sel_wait",
              !.sel = [SelInit EXCEPT !.repos = repos, !.i = 1, !.queried = <<repos[1]>>]]

\* lines 84-85 of bot.py left out: the branch is queried whatever was selected
SelectReturn_NoCheck(c) ==
    LET repo_info == RepoInfoOf(c.sel)
        r == [c EXCEPT !.out.repo_info = repo_info, !.out.selected = "returned"]
    IN  IF c.entry = "select" THEN [r EXCEPT !.pc = "done"]
        ELSE [r EXCEPT !.pc = "branch_wait"]

\* get_latest_repo_info returns; bot.py lines 83-91
SelectReturn(c) ==
    LET repo_info == RepoInfoOf(c.sel)
        r == [c EXCEPT !.out.repo_info = repo_info, !.out.selected = "returned"]
    IN  IF c.entry = "select" THEN [r EXCEPT !.pc = "done"]
        ELSE IF repo_info = NoRepoInfo THEN HandleReturn(r)
        ELSE [r EXCEPT !.pc = "branch_wait"]

\* a 200 answer that carries the branch's commit, its date and its sha
IsBranchAnswer(resp) ==
    resp.kind = "response" /\ resp.status_code = 200 /\ resp.body.shape = "ok"

\* lines 68-88: the answer resp to the query in flight
OnSelResponse(c, resp) ==
    LET repo == c.sel.repos[c.sel.i]
        u == SelUpdate(c.sel, repo, resp)
        s == IF IsBranchAnswer(resp)
             THEN [u EXCEPT !.answered = Append(@, [repo |-> repo, sha |-> resp.body.sha,
                                                    date |-> resp.body.date])]
             ELSE u
    IN  IF c.sel.i < Len(c.sel.repos)
        THEN [c EXCEPT !.sel = [s EXCEPT !.i = @ + 1, !.queried = Append(@, s.repos[s.i + 1])]]
        ELSE SelectReturn([c EXCEPT !.sel = s])

(***************************************************************************)
(* check_rate_limit, github.py lines 25-57, and cmd_manifest lines 225-235.*)
(***************************************************************************)
RateFields == {"remaining", "limit", "reset", "used"}

RateBody(shape, rate) == [shape |-> shape, rate |-> rate]

Rate(remaining, limit, reset, used) ==
    [f \in RateFields |-> CASE f = "remaining" -> remaining [] f = "limit" -> limit
                            [] f = "reset" -> reset [] f = "used" -> used]

\* bodies of a 200 answer: the rate object, a rate object without some or all
\* of its fields, a body that is no JSON, a "rate" that is no object, a
\* "reset" that is no time
RateBodies ==
    {RateBody("json", Rate(10, 60, 1700000000, 50)),
     RateBody("json", Rate(0, 60, 1700000000, 60)),
     RateBody("json", [f \in {"remaining"} |-> 7]),
     RateBody("json", [f \in {} |-> 0]),
     RateBody("not_json", [f \in {} |-> 0]),
     RateBody("rate_not_object", [f \in {} |-> 0]),
     RateBody("reset_not_a_time", Rate(10, 60, 0, 50))}

RateResponses ==
    {[kind |-> "error", status_code |-> 0, body |-> RateBody("none", [f \in {} |-> 0])],
     [kind |-> "response", status_code |-> 403, body |-> RateBody("none", [f \in {} |-> 0])]}
    \cup {[kind |-> "response", status_code |-> 200, body |-> b] : b \in RateBodies}

\* values a field of the rate object may carry
RateValues(f) ==
    CASE f = "remaining" -> {0, 10, 4999}
      [] f = "limit" -> {60, 5000}
      [] f = "reset" -> {1700000000, 1700003600}
      [] f = "used" -> {50, 60}

\* the answers to a direct call of check_rate_limit: RateResponses, and a 200
\* answer for every rate object that carries some or all of its fields
RateInputs ==
    RateResponses
    \cup {[kind |-> "response", status_code |-> 200, body |-> RateBody("json", rate)] :
            rate \in UNION {{r \in [fields -> 0 .. 0 \cup UNION {RateValues(f) : f \in fields}] :
                                \A f \in fields : r[f] \in RateValues(f)} :
                             fields \in SUBSET RateFields}}

\* dict.get(key, default)
Get(d, key, default) == IF key \in DOMAIN d THEN d[key] ELSE default

\* time.strftime("%Y-%m-%d %H:%M:%S", time.localtime(reset_time))
ResetFormatted(reset_time) == <<"%Y-%m-%d %H:%M:%S", reset_time>>

\* the default values of lines 36-52 whatever the body says
RateStatus_Defaults(resp) ==
    [limit |-> DefaultLimit, remaining |-> 0, reset |-> 0, used |-> 0,
     reset_formatted |-> ResetFormatted(0), reset_relative |-> <<"<t:", 0, ":R>">>]

\* lines 35-52: the status built from a decoded body
RateStatus(resp) ==
    LET rate_limit == resp.body.rate
        reset_time == Get(rate_limit, "reset", 0)
    IN  [limit |-> Get(rate_limit, "limit", DefaultLimit),
         remaining |-> Get(rate_limit, "remaining", 0),
         reset |-> reset_time,
         used |-> Get(rate_limit, "used", 0),
         reset_formatted |-> ResetFormatted(reset_time),
         reset_relative |-> <<"<t:", reset_time, ":R>">>]

\* r.json(), rate_limit.get or time.localtime raises on the body
Undecodable(resp) == resp.body.shape \in {"not_json", "rate_not_object", "reset_not_a_time"}

\* the try of line 28 left out: what is raised leaves the call
check_rate_limit_NoTry(resp) ==
    IF resp.kind = "error" THEN [raise |-> CheckError(0)]
    ELSE IF resp.status_code # 200 THEN [error |-> StatusError(resp.status_code)]
    ELSE IF Undecodable(resp) THEN [raise |-> CheckError(200)]
    ELSE RateStatus(resp)

\* lines 28-57: what check_rate_limit returns on the answer resp; a result
\* with the field raise would be an exception leaving the call
check_rate_limit(resp) ==
    IF resp.kind = "error" THEN [error |-> CheckError(0)]
    ELSE IF resp.status_code # 200 THEN [error |-> StatusError(resp.status_code)]
    ELSE IF Undecodable(resp) THEN [error |-> CheckError(200)]
    ELSE RateStatus(resp)

\* how the answer to the rate limit query is classed
AnswerClass(resp) ==
    IF resp.kind = "error" THEN "transport error"
    ELSE IF resp.status_code # 200 THEN "non-200"
    ELSE IF resp.body.shape # "json" THEN "malformed"
    ELSE "decoded"

\* cmd_manifest, lines 225-235
LimitMsg(rate_info) ==
    IF "error" \in DOMAIN rate_info
    THEN [text |-> "Could not check GitHub API limits", used |-> 0, limit |-> 0,
          remaining |-> 0, reset |-> 0, exhausted |-> FALSE]
    ELSE [text |-> "GitHub API Status", used |-> rate_info.used, limit |-> rate_info.limit,
          remaining |-> rate_info.remaining, reset |-> rate_info.reset,
          exhausted |-> (rate_info.remaining = 0)]

(***************************************************************************)
(* The steps of a task.                                                    *)
(***************************************************************************)
Quiet == \A u \in Tasks : pc[u] \in {"idle", "done"}

\* a fresh invocation: nothing of the task's previous one is left
Fresh(t, what) ==
    [Ctx(t) EXCEPT !.entry = what, !.sel = SelInit, !.walk = WalkInit,
                   !.fetch = FetchInit, !.out = OutInit]

\* line 35 left out
RunCall_NoClear(c) == [c EXCEPT !.pc = "run_cn"]

\* run, lines 35-39: the tracked set is cleared, then check_cn is awaited
RunCall(c) == [c EXCEPT !.downloaded_files = {}, !.pc = "run_cn"]

\* cmd_manifest is invoked: line 210, defer() is awaited
StartCmd(t) ==
    /\ pc[t] \in {"idle", "done"}
    /\ Commit(t, [Fresh(t, "cmd") EXCEPT !.pc = "cmd_defer"])

\* cmd_manifest, lines 213-223: every file of the directory is unlinked, save
\* those whose unlink fails; then check_rate_limit is awaited
CmdClear(t) ==
    /\ pc[t] = "cmd_defer"
    /\ \E kept \in SUBSET {p \in Paths : Exists(fs, p)} :
          Commit(t, [Ctx(t) EXCEPT !.pc = "cmd_rate",
                                   !.fs = [p \in Paths |-> IF p \in kept THEN fs[p] ELSE NoBytes]])

\* cmd_manifest, lines 223-238: the rate limit answer, then run is called;
\* out.rate_answer keeps the class of the answer
CmdRate(t) ==
    /\ pc[t] = "cmd_rate"
    /\ \E resp \in RateResponses :
          LET rate_info == check_rate_limit(resp)
              c == [Ctx(t) EXCEPT !.out.rate_answer = AnswerClass(resp)]
          IN  Commit(t, IF "raise" \in DOMAIN rate_info
                        THEN CmdExcept(c, rate_info.raise)
                        ELSE RunCall([c EXCEPT !.out.rate_info = rate_info,
                                               !.out.limit_msg = LimitMsg(rate_info)]))

\* run is called directly
StartRun(t) ==
    /\ pc[t] \in {"idle", "done"}
    /\ Commit(t, RunCall(Fresh(t, "run")))

\* run, lines 39-41: check_cn answers, then check_rate_limit is awaited
RunCn(t) ==
    /\ pc[t] = "run_cn"
    /\ \E cn \in BOOLEAN :
          Commit(t, [Ctx(t) EXCEPT !.is_cn = cn, !.pc = "run_rate"])

\* run, lines 41-45, and handle_depot_files, lines 76-83: the rate limit
\* answer is dropped and the first candidate is queried
RunRate(t) ==
    /\ pc[t] = "run_rate"
    /\ \E resp \in RateResponses :
          LET rate_info == check_rate_limit(resp)
          IN  Commit(t, IF "raise" \in DOMAIN rate_info
                        THEN RunExcept(Ctx(t), rate_info.raise)
                        ELSE SelectCall([Ctx(t) EXCEPT !.walk = WalkInit], repo_list))

\* get_latest_repo_info is called directly on the candidate list
StartSelect(t) ==
    /\ pc[t] \in {"idle", "done"}
    /\ Commit(t, SelectCall(Fresh(t, "select"), repo_list))

SelResponse(t) ==
    /\ pc[t] = "sel_wait"
    /\ \E resp \in SelResponses(head, sel[t].repos[sel[t].i]) :
          Commit(t, OnSelResponse(Ctx(t), resp))

BranchResponse(t) ==
    /\ pc[t] = "branch_wait"
    /\ \E resp \in BranchResponses(head, out[t].repo_info.name) :
          Commit(t, OnBranchResponse(Ctx(t), resp))

TreeResponse(t) ==
    /\ pc[t] = "tree_wait"
    /\ \E resp \in TreeResponses(tree_of, walk[t].tree_sha) :
          Commit(t, OnTreeResponse(Ctx(t), resp))

\* fetch_file is called directly
StartFetch(t) ==
    /\ pc[t] \in {"idle", "done"}
    /\ \E repo \in Repos, sha \in Shas, path \in Paths :
          Commit(t, FetchCall(Fresh(t, "fetch"), repo, sha, path, "direct"))

FetchResponse(t) ==
    /\ pc[t] = "fetch_wait"
    /\ \E resp \in CdnResponses(tree_of, fetch[t].sha, fetch[t].path) :
          Commit(t, OnFetchResponse(Ctx(t), resp))

\* run, lines 52-58: SteamTools.setup returns success or not, or raises
SetupResponse(t) ==
    /\ pc[t] = "setup_wait"
    /\ \/ \E success \in BOOLEAN : Commit(t, SetupReturn(Ctx(t), success))
       \/ Commit(t, RunExcept(Ctx(t), [text |-> "setup failed", code |-> 0, path |-> P_txt]))

\* check_rate_limit is called directly: line 29, the request is awaited
StartRate(t) ==
    /\ pc[t] \in {"idle", "done"}
    /\ Commit(t, [Fresh(t, "rate") EXCEPT !.pc = "rate_wait"])

\* lines 29-57: the answer arrives and check_rate_limit returns;
\* out.rate_resp keeps the answer
RateResponse(t) ==
    /\ pc[t] = "rate_wait"
    /\ \E resp \in RateInputs :
          Commit(t, [Ctx(t) EXCEPT !.pc = "done",
                                   !.out.rate_resp = resp,
                                   !.out.rate_answer = AnswerClass(resp),
                                   !.out.rate_info = check_rate_limit(resp)])

\* the branch of a candidate repository moves, appears or is deleted
Push(r) ==
    /\ \E s \in (0 .. NumCommits) \ {head[r]} : head' = [head EXCEPT ![r] = s]
    /\ UNCHANGED <<repo_list, tree_of, shared, locals>>

(***************************************************************************)
(* Initial states and specifications.                                      *)
(***************************************************************************)
\* the trees of the commits
TreeCatalogue(s) ==
    CASE s = 1 -> <<P_1000_50, P_key>>
      [] s = 2 -> <<P_1000_50, P_1000_75, P_Key>>
      [] s = 3 -> <<P_readme, P_1000_75>>
      [] OTHER -> <<P_txt, P_2_9>>

InitLocals ==
    /\ pc = [t \in Tasks |-> "idle"]
    /\ entry = [t \in Tasks |-> "none"]
    /\ sel = [t \in Tasks |-> SelInit]
    /\ walk = [t \in Tasks |-> WalkInit]
    /\ fetch = [t \in Tasks |-> FetchInit]
    /\ out = [t \in Tasks |-> OutInit]

InitStore ==
    /\ fs = [p \in Paths |-> NoBytes]
    /\ downloaded_files = {}

\* fetch_file alone, on either CDN list
InitFetch ==
    /\ repo_list = [i \in 1 .. NumRepos |-> i]
    /\ head = [r \in Repos |-> 0]
    /\ tree_of = [s \in Shas |-> TreeCatalogue(s)]
    /\ is_cn \in BOOLEAN
    /\ InitStore
    /\ InitLocals

NextFetch == StartFetch(1) \/ FetchResponse(1)

SpecFetch == InitFetch /\ [][NextFetch]_vars

\* the steps of run and of handle_depot_files
RunStep(t) ==
    \/ RunCn(t)
    \/ RunRate(t)
    \/ SelResponse(t)
    \/ BranchResponse(t)
    \/ TreeResponse(t)
    \/ FetchResponse(t)
    \/ SetupResponse(t)

\* the steps of cmd_manifest before it calls run
CmdStep(t) ==
    \/ CmdClear(t)
    \/ CmdRate(t)

\* The pipeline: run is called again and again on the one application object,
\* each call after the previous one has returned, against repositories whose
\* branches do not move.
Init ==
    /\ repo_list = [i \in 1 .. NumRepos |-> i]
    /\ head \in [Repos -> 0 .. NumCommits]
    /\ tree_of = [s \in Shas |-> TreeCatalogue(s)]
    /\ is_cn = TRUE
    /\ InitStore
    /\ InitLocals

Next ==
    \/ StartRun(1)
    \/ RunStep(1)

Spec == Init /\ [][Next]_vars

\* The /manifest command, again and again, one command after the other.
InitCmd ==
    /\ repo_list = [i \in 1 .. NumRepos |-> i]
    /\ head \in {[r \in Repos |-> 0]} \cup {[r \in Repos |-> IF r = 1 THEN s ELSE 0] : s \in 1 .. 2}
    /\ tree_of = [s \in Shas |-> TreeCatalogue(s)]
    /\ is_cn = TRUE
    /\ InitStore
    /\ InitLocals

NextCmd ==
    \/ StartCmd(1)
    \/ CmdStep(1)
    \/ RunStep(1)

SpecCmd == InitCmd /\ [][NextCmd]_vars

\* check_rate_limit alone, on every answer
NextRate == StartRate(1) \/ RateResponse(1)

SpecRate == InitCmd /\ [][NextRate]_vars

\* get_latest_repo_info alone, on every ordering of every candidate list
InitSelect ==
    /\ repo_list \in InjSeqs(Repos, NumRepos) \ {<<>>}
    /\ head \in [Repos -> 0 .. NumCommits]
    /\ tree_of = [s \in Shas |-> TreeCatalogue(s)]
    /\ is_cn = TRUE
    /\ InitStore
    /\ InitLocals

NextSelect == StartSelect(1) \/ SelResponse(1)

SpecSelect == InitSelect /\ [][NextSelect]_vars

\* The tree walk on every tree listing of at most MaxTree entries.
InitWalk ==
    /\ repo_list = [i \in 1 .. NumRepos |-> i]
    /\ head = [r \in Repos |-> IF r = 1 THEN 1 ELSE 0]
    /\ tree_of \in {[s \in Shas |-> IF s = 1 THEN tree ELSE TreeCatalogue(s)] :
                      tree \in InjSeqs(Paths, MaxTree)}
    /\ is_cn = TRUE
    /\ InitStore
    /\ InitLocals

SpecWalk == InitWalk /\ [][Next]_vars

\* Two calls of run on the one application object, the second right after
\* the first has returned: nothing is cleared and no branch moves in between.
NextTwice ==
    \/ pc[1] = "idle" /\ StartRun(1)
    \/ RunStep(1)
    \/ pc[1] = "done" /\ pc[2] = "idle" /\ StartRun(2)
    \/ RunStep(2)

SpecTwice == Init /\ [][NextTwice]_vars

\* Two /manifest commands, the second after the first has been answered;
\* branches may be pushed in between.
InitPair ==
    /\ repo_list = [i \in 1 .. NumRepos |-> i]
    /\ head = [r \in Repos |-> 0]
    /\ tree_of = [s \in Shas |-> TreeCatalogue(s)]
    /\ is_cn = TRUE
    /\ InitStore
    /\ InitLocals

NextPair ==
    \/ pc[1] = "idle" /\ StartCmd(1)
    \/ CmdStep(1)
    \/ RunStep(1)
    \/ pc[1] = "done" /\ pc[2] = "idle" /\ Push(1)
    \/ pc[1] = "done" /\ pc[2] = "idle" /\ StartCmd(2)
    \/ CmdStep(2)
    \/ RunStep(2)

SpecPair == InitPair /\ [][NextPair]_vars

\* Two /manifest commands handled by the one bot process, each a task of the
\* one event loop: the steps of the two interleave at the await points.  The
\* command of task 1 is the one that arrives first, and the rate limit query
\* of a command is answered with 10 requests remaining.
InitConc ==
    /\ repo_list = [i \in 1 .. NumRepos |-> i]
    /\ head = [r \in Repos |-> IF r = 1 THEN 1 ELSE 0]
    /\ tree_of = [s \in Shas |-> TreeCatalogue(s)]
    /\ is_cn = TRUE
    /\ InitStore
    /\ InitLocals

NextConc ==
    \/ pc[1] = "idle" /\ StartCmd(1)
    \/ pc[1] # "idle" /\ pc[2] = "idle" /\ StartCmd(2)
    \/ \E t \in Tasks : CmdClear(t)
    \/ \E t \in Tasks :
          CmdRate(t) /\ out'[t].rate_answer = "decoded" /\ out'[t].limit_msg.remaining = 10
    \/ \E t \in Tasks : RunStep(t)

SpecConc == InitConc /\ [][NextConc]_vars

\* Calls of run against repositories that are pushed to: a branch moves,
\* appears or goes after get_latest_repo_info has returned and before the
\* branch query of handle_depot_files is answered.
NextMove ==
    \/ StartRun(1)
    \/ RunStep(1)
    \/ \E r \in Repos : pc[1] = "branch_wait" /\ Push(r)

SpecMove == Init /\ [][NextMove]_vars

(***************************************************************************)
(* Properties.                                                             *)
(***************************************************************************)

\* C1: fetch_file never issues more than 3 x |endpoints| requests; a call
\* that ends without a 200 answer has issued exactly 3 x |endpoints| requests,
\* every one of them failed, and it raised the error that names the requested
\* path; a call that has ended has either returned or raised.
C1_FetchExhausts ==
    \A t \in Tasks :
       LET f == fetch[t]
           n == Len(f.cdn_list)
       IN  /\ Len(f.log) <= 3 * n
           /\ (entry[t] = "fetch" /\ pc[t] = "done")
                 => out[t].fetched.status \in {"returned", "raised"}
           /\ (entry[t] = "fetch" /\ out[t].fetched.status # "returned" /\ pc[t] = "done")
                 => /\ n > 0
                    /\ Len(f.log) = 3 * n
                    /\ f.last \in {0, 404}
                    /\ out[t].raised = UnavailableError(f.path)

\* a call on the three-endpoint list has failed after nine requests
C1_Witness ==
    /\ entry[1] = "fetch"
    /\ pc[1] = "done"
    /\ out[1].fetched.status = "raised"
    /\ Len(fetch[1].cdn_list) = 3
    /\ Len(fetch[1].log) = 9

\* C2: the requests of a call of fetch_file go to the endpoints in rank
\* order, round after round; no request is in flight after a 200 answer, and
\* the call that got it has returned the bytes of that answer, the k requests
\* up to it being all the call ever issued.
C2_RankOrderFirstSuccess ==
    \A t \in Tasks :
       LET f == fetch[t]
           n == Len(f.cdn_list)
       IN  /\ \A k \in DOMAIN f.log : f.log[k] = f.cdn_list[((k - 1) % n) + 1]
           /\ pc[t] = "fetch_wait" => f.last # 200
           /\ (entry[t] = "fetch" /\ f.last = 200)
                 => /\ pc[t] = "done"
                    /\ out[t].fetched = [status |-> "returned", content |-> Blob(f.sha, f.path)]
           /\ (entry[t] = "fetch" /\ out[t].fetched.status = "returned") => f.last = 200

\* the first two endpoints failed and the third answered 200: three requests
C2_Witness ==
    /\ entry[1] = "fetch"
    /\ out[1].fetched.status = "returned"
    /\ fetch[1].log = <<CN_CDN_LIST[1], CN_CDN_LIST[2], CN_CDN_LIST[3]>>

\* the candidates of task t that answered the branch query completely
Answered(t) == Range(sel[t].answered)

\* C3: when every candidate of the list has answered the branch query with a
\* 200 that carries its commit, and no two of the commit dates are equal, the
\* RepoInfo returned is the candidate with the latest date; the list is in
\* any order.
C3_LatestWins ==
    \A t \in Tasks :
       (/\ entry[t] = "select"
        /\ pc[t] = "done"
        /\ Len(sel[t].answered) = Len(sel[t].repos)
        /\ \A a, b \in Answered(t) : a.date = b.date => a = b)
       => \E best \in Answered(t) :
             /\ \A a \in Answered(t) : FromIsoFormat(a.date) <= FromIsoFormat(best.date)
             /\ out[t].repo_info = [name |-> best.repo,
                                    last_update |-> FromIsoFormat(best.date),
                                    sha |-> best.sha]

\* the later commit is on the candidate queried first, and it is returned
C3_Witness ==
    /\ entry[1] = "select"
    /\ pc[1] = "done"
    /\ Len(sel[1].answered) = 2
    /\ sel[1].repos = <<2, 1>>
    /\ head = <<1, 2>>
    /\ out[1].repo_info.name = 2
    /\ out[1].repo_info.sha = 2

NoBranchAnywhere == \A r \in Repos : head[r] = 0

\* C4: when no candidate repository has the branch, get_latest_repo_info
\* returns None, and handle_depot_files returns an empty depot-key list and an
\* empty depot map: it raises nothing, queries no branch for a tree, walks no
\* tree and calls fetch_file on nothing.
C4_NoMatchEmpty ==
    \A t \in Tasks :
       NoBranchAnywhere
       => /\ pc[t] \notin {"branch_wait", "tree_wait", "fetch_wait", "setup_wait"}
          /\ out[t].selected = "returned" => out[t].repo_info = NoRepoInfo
          /\ (entry[t] = "run" /\ pc[t] = "done")
                => /\ out[t].selected = "returned"
                   /\ out[t].handle = [status |-> "returned", depot_list |-> <<>>,
                                       depot_map |-> EmptyMap]
                   /\ out[t].raised = NoError
                   /\ walk[t] = WalkInit
                   /\ fetch[t] = FetchInit
                   /\ out[t].calls = {}

\* a run has ended where no candidate has the branch
C4_Witness ==
    /\ NoBranchAnywhere
    /\ entry[1] = "run"
    /\ pc[1] = "done"
    /\ out[1].handle.status = "returned"
    /\ out[1].ret.status = "returned"

\* the manifest ids of a depot, each greater by value than the next
StrictlyDescending(ids) == \A i \in 1 .. (Len(ids) - 1) : int(ids[i]) > int(ids[i + 1])

\* the manifest ids of a depot, none smaller by value than the next, and two
\* of the same value spelled differently
Descending(ids) ==
    \A i \in 1 .. (Len(ids) - 1) :
       /\ int(ids[i]) >= int(ids[i + 1])
       /\ int(ids[i]) = int(ids[i + 1]) => ids[i] # ids[i + 1]

C6_SecondRunFetchesNothing ==
    (/\ pc[1] = "done"
     /\ pc[2] = "done"
     /\ out[1].handle.status = "returned"
     /\ out[2].handle.status = "returned"
     /\ out[1].repo_info = out[2].repo_info)
    => /\ \A p \in out[2].calls : ~IsManifestPath(p)
       /\ out[2].written = {}
       /\ downloaded_files = {}
       /\ out[2].handle.depot_map = out[1].handle.depot_map

\* the first call downloaded manifests, the second walked the same tree
C6_Witness ==
    /\ pc[1] = "done"
    /\ pc[2] = "done"
    /\ out[1].handle.status = "returned"
    /\ out[2].handle.status = "returned"
    /\ out[1].repo_info = out[2].repo_info
    /\ Cardinality(out[1].written) = 2
    /\ DOMAIN out[2].handle.depot_map # {}

\* C7: a manifest that is on local storage is not fetched, not overwritten
\* and not added to the tracked set by any step of a run.
C7_ExistingNeverFetched ==
    [][\A t \in Tasks : \A p \in Paths :
          (IsManifestPath(p) /\ Exists(fs, p))
          => /\ fs'[p] = fs[p]
             /\ p \in downloaded_files' => p \in downloaded_files
             /\ p \in out'[t].calls => p \in out[t].calls
             /\ ~(pc'[t] = "fetch_wait" /\ fetch'[t].path = p)]_vars

\* a run has walked past a manifest that was there before it began
C7_Witness ==
    /\ entry[1] = "run"
    /\ out[1].handle.status = "returned"
    /\ \E p \in Range(walk[1].tree) :
          /\ IsManifestPath(p)
          /\ Exists(fs, p)
          /\ p \notin out[1].calls
          /\ p \notin downloaded_files

\* C8: the tracked set is the set of the manifest paths that the most recent
\* call of run has fetched and written, whether that call is still running,
\* has returned, has failed or has found no repository; every one of them is
\* a path of the tree that call walked.
C8_TrackedIsThisRun ==
    \A t \in Tasks :
       entry[t] = "run"
       => /\ downloaded_files = out[t].written
          /\ downloaded_files \subseteq {p \in Range(walk[t].tree) : IsManifestPath(p)}

\* the most recent run failed after writing a manifest, and a manifest of an
\* earlier run is on local storage
C8_Witness ==
    /\ entry[1] = "run"
    /\ pc[1] = "done"
    /\ out[1].handle.status = "raised"
    /\ downloaded_files # {}
    /\ \E p \in Paths : Exists(fs, p) /\ p \notin downloaded_files

\* the selector found no repository for the command of task t
NoMatch(t) ==
    /\ entry[t] = "cmd"
    /\ pc[t] = "done"
    /\ out[t].selected = "returned"
    /\ out[t].repo_info = NoRepoInfo

\* a fetch_file of the command of task t exhausted every round
DownloadFailed(t) ==
    /\ entry[t] = "cmd"
    /\ pc[t] = "done"
    /\ out[t].fetched.status = "raised"
    /\ out[t].raised = UnavailableError(fetch[t].path)

\* C9: a command for which no repository matched and a command one of whose
\* downloads failed do not end with the same return value of run and the
\* same messages sent.
C9_Distinguishable ==
    \A t, u \in Tasks :
       (NoMatch(t) /\ DownloadFailed(u))
       => ~(out[t].ret = out[u].ret /\ out[t].msgs = out[u].msgs)

\* C10: check_rate_limit raises nothing.  In cmd_manifest a transport error,
\* a non-200 status or a body that cannot be decoded gives a value with the
\* key error, a decoded body gives one without it, and the command goes on to
\* run; in run the answer, whatever it is, is followed by the first branch
\* query of the pipeline.
C10_RateLimitNeverRaises ==
    /\ [](\A t \in Tasks :
             (entry[t] = "cmd" /\ pc[t] \notin {"cmd_defer", "cmd_rate"})
             => /\ out[t].rate_answer # "none"
                /\ "raise" \notin DOMAIN out[t].rate_info
                /\ out[t].rate_answer \in {"transport error", "non-200", "malformed"}
                      <=> "error" \in DOMAIN out[t].rate_info
                /\ "error" \in DOMAIN out[t].rate_info
                      <=> out[t].limit_msg.text = "Could not check GitHub API limits"
                /\ out[t].selected = "none" => pc[t] \in {"run_cn", "run_rate", "sel_wait"}
                /\ \A i \in DOMAIN out[t].msgs : out[t].msgs[i].kind # "Error processing AppID")
    /\ [][\A t \in Tasks :
             /\ pc[t] = "cmd_rate" => pc'[t] = "run_cn" /\ out'[t].raised = NoError
             /\ pc[t] = "run_rate" => pc'[t] = "sel_wait" /\ out'[t].raised = NoError]_vars

\* a command whose rate limit check met a transport error has come to the
\* end of the pipeline and has sent its manifests
C10_Witness ==
    /\ entry[1] = "cmd"
    /\ pc[1] = "done"
    /\ out[1].rate_answer = "transport error"
    /\ "error" \in DOMAIN out[1].rate_info
    /\ out[1].handle.status = "returned"
    /\ out[1].ret.files # {}

\* the answer is a 200 whose body is a rate object with all four fields
FullRateAnswer(resp) ==
    /\ resp.kind = "response"
    /\ resp.status_code = 200
    /\ resp.body.shape = "json"
    /\ DOMAIN resp.body.rate = RateFields

\* C11: check_rate_limit, on a 200 answer whose body has rate = {remaining,
\* limit, reset, used}, returns a status with exactly those remaining, limit
\* and used values, a non-empty formatted reset string, and no key error.
C11_RateStatusCarriesBody ==
    \A t \in Tasks :
       (entry[t] = "rate" /\ pc[t] = "done" /\ FullRateAnswer(out[t].rate_resp))
       => LET rate == out[t].rate_resp.body.rate
              info == out[t].rate_info
          IN  /\ "error" \notin DOMAIN info
              /\ {"remaining", "limit", "used", "reset_formatted"} \subseteq DOMAIN info
              /\ info.remaining = rate.remaining
              /\ info.limit = rate.limit
              /\ info.used = rate.used
              /\ info.reset_formatted # <<>>
              /\ info.reset_formatted = ResetFormatted(rate.reset)

\* the answer {"rate": {"remaining": 10, "limit": 60, "reset": 1700000000,
\* "used": 50}} has been turned into its status
C11_Witness ==
    /\ entry[1] = "rate"
    /\ pc[1] = "done"
    /\ FullRateAnswer(out[1].rate_resp)
    /\ out[1].rate_resp.body.rate = Rate(10, 60, 1700000000, 50)
    /\ out[1].rate_info.remaining = 10
    /\ out[1].rate_info.limit = 60
    /\ out[1].rate_info.used = 50

\* the selection made over the complete answers a, in the order they came:
\* the first of those with the latest date
SelectionOver(a) ==
    IF a = <<>> THEN NoRepoInfo
    ELSE LET i == CHOOSE i \in DOMAIN a :
                     /\ \A j \in DOMAIN a : FromIsoFormat(a[j].date) <= FromIsoFormat(a[i].date)
                     /\ \A j \in 1 .. i - 1 : FromIsoFormat(a[j].date) < FromIsoFormat(a[i].date)
         IN  [name |-> a[i].repo, last_update |-> FromIsoFormat(a[i].date), sha |-> a[i].sha]

\* C12: get_latest_repo_info queries every candidate once, in list order,
\* whatever the earlier candidates answered, and a transport error, a non-200
\* status or a malformed body skips that candidate only: what is returned is
\* the selection made over the candidates that answered completely.
C12_FailuresSkipOnlyThemselves ==
    \A t \in Tasks :
       (entry[t] = "select" /\ pc[t] = "done")
       => /\ sel[t].queried = sel[t].repos
          /\ out[t].repo_info = SelectionOver(sel[t].answered)

\* the place of repository r in the candidate list repos
PlaceOf(repos, r) == CHOOSE i \in DOMAIN repos : repos[i] = r

\* C13: ties go to the candidate seen first.  When get_latest_repo_info
\* returns a candidate that answered completely, no candidate that answered
\* completely has a later commit date, and those of the same date come after
\* it in the candidate list; and during the call a candidate takes the place
\* of the current selection only with a strictly later date.
C13_FirstSeenWinsTies ==
    /\ [](\A t \in Tasks :
             (entry[t] = "select" /\ pc[t] = "done")
             => \A x \in Answered(t) :
                   x.repo = out[t].repo_info.name
                   => \A b \in Answered(t) :
                         /\ FromIsoFormat(b.date) <= FromIsoFormat(x.date)
                         /\ (b.date = x.date)
                               => PlaceOf(sel[t].repos, x.repo) <= PlaceOf(sel[t].repos, b.repo))
    /\ [][\A t \in Tasks :
             (/\ pc[t] = "sel_wait"
              /\ sel[t].selected_repo # 0
              /\ sel'[t].selected_repo # sel[t].selected_repo)
             => sel'[t].latest_date > sel[t].latest_date]_vars

\* two candidates answered with commits of the same date, and the one listed
\* first, repository 2, is returned
C13_Witness ==
    /\ entry[1] = "select"
    /\ pc[1] = "done"
    /\ sel[1].repos = <<2, 1>>
    /\ Len(sel[1].answered) = 2
    /\ head[1] = 3
    /\ head[2] = 2
    /\ CommitDateStr(3) = CommitDateStr(2)
    /\ out[1].repo_info.name = 2
    /\ out[1].repo_info.sha = 2

\* C14: in handle_depot_files a fetch_file that has exhausted its rounds, for
\* a manifest or for a key file, ends the run: the exception that names the
\* path leaves handle_depot_files, the walk stays on the entry that failed,
\* nothing is returned by handle_depot_files, and run returns (False, []).
C14_FetchFailureEndsRun ==
    \A t \in Tasks :
       (entry[t] = "run" /\ out[t].fetched.status = "raised")
       => /\ pc[t] = "done"
          /\ out[t].handle = [status |-> "raised", depot_list |-> <<>>, depot_map |-> EmptyMap]
          /\ out[t].raised = UnavailableError(fetch[t].path)
          /\ walk[t].k \in DOMAIN walk[t].tree
          /\ walk[t].tree[walk[t].k] = fetch[t].path
          /\ \A i \in DOMAIN walk[t].tree :
                i > walk[t].k => walk[t].tree[i] \notin out[t].calls
          /\ out[t].ret = [status |-> "returned", success |-> FALSE, files |-> {}]

\* the second manifest of a tree of three entries could not be fetched, after
\* the first had been written
C14_Witness ==
    /\ entry[1] = "run"
    /\ pc[1] = "done"
    /\ out[1].fetched.status = "raised"
    /\ walk[1].tree = <<P_1000_50, P_1000_75, P_Key>>
    /\ fetch[1].path = P_1000_75
    /\ out[1].written = {P_1000_50}
    /\ out[1].handle.status = "raised"

\* C15: run rolls nothing back.  Every manifest a run has written holds the
\* bytes fetched for it, also once the run has failed; no step of a run,
\* failing or not, removes or rewrites a file that is there; and a manifest
\* that is there and was not written by the current run (an earlier run wrote
\* it) is taken as existing: fetch_file is not called for it.
C15_NoRollback ==
    /\ [](\A t \in Tasks :
             entry[t] = "run"
             => /\ \A p \in out[t].written : fs[p] = Blob(out[t].repo_info.sha, p)
                /\ \A p \in Paths :
                      (IsManifestPath(p) /\ Exists(fs, p) /\ p \notin out[t].written)
                      => p \notin out[t].calls)
    /\ [][\A p \in Paths : Exists(fs, p) => fs'[p] = fs[p]]_vars

\* a run has walked the whole tree of commit 2 and has written only its second
\* manifest: the first was left, with its bytes, by an earlier run that failed
\* on the second
C15_Witness ==
    /\ head = <<2, 0>>
    /\ entry[1] = "run"
    /\ pc[1] = "done"
    /\ out[1].handle.status = "returned"
    /\ out[1].written = {P_1000_75}
    /\ fs[P_1000_50] = Blob(2, P_1000_50)
    /\ P_1000_50 \notin out[1].calls

\* a tree entry that ends in .manifest and whose name does not parse
Unparsed(p) == IsManifestPath(p) /\ parse_manifest_filename(p) = <<>>

\* the ids listed in a depot map, counted
RECURSIVE CountIds(_)
CountIds(depot_map) ==
    IF DOMAIN depot_map = {} THEN 0
    ELSE LET d == CHOOSE d \in DOMAIN depot_map : TRUE
         IN  Len(depot_map[d]) + CountIds([e \in DOMAIN depot_map \ {d} |-> depot_map[e]])

InFlight(t) ==
    pc[t] \in {"run_cn", "run_rate", "sel_wait", "branch_wait", "tree_wait", "fetch_wait",
               "setup_wait"}

\* what belongs to task t alone
LocalsOf(t) == <<pc[t], entry[t], sel[t], walk[t], fetch[t], out[t]>>

\* C17: the tracked set belongs to the one run in flight.  While the run of a
\* /manifest command is in flight, a step of the other command neither clears
\* nor extends the tracked set; and a run returns only files that it has
\* written itself.
C17_TrackedSetOwnedByOneRun ==
    [][\A t \in Tasks :
          /\ (InFlight(t) /\ LocalsOf(t)' = LocalsOf(t))
                => downloaded_files' = downloaded_files
          /\ (pc[t] # "done" /\ pc'[t] = "done")
                => out'[t].ret.files \subseteq out'[t].written]_vars

\* C18: the listing that handle_depot_files walks is the tree of the commit
\* that get_latest_repo_info selected, and every path given to fetch_file
\* with that sha is a path of the tree of that sha, also when the branch has
\* moved in between.  (The selection is one that the selected repository
\* answered completely.)
C18_WalksTreeOfSelectedSha ==
    \A t \in Tasks :
       (/\ entry[t] = "run"
        /\ out[t].selected = "returned"
        /\ \E a \in Answered(t) : a.repo = out[t].repo_info.name /\ a.sha = out[t].repo_info.sha)
       => /\ walk[t].tree_sha \in {0, out[t].repo_info.sha}
          /\ \A p \in out[t].calls : p \in Range(tree_of[out[t].repo_info.sha])

\* C19: at every point of a run, each tracked path has a file on local
\* storage that holds the bytes fetch_file returned for it; a path enters
\* the tracked set only in the step in which its fetch_file returns and its
\* file is written; and an entry whose fetch_file has raised has neither a
\* file nor a place in the tracked set.
C19_TrackedHasItsFile ==
    /\ [](\A t \in Tasks :
             entry[t] = "run"
             => /\ \A p \in downloaded_files :
                      /\ Exists(fs, p)
                      /\ fs[p] = Blob(out[t].repo_info.sha, p)
                      /\ p \in out[t].calls
                /\ out[t].fetched.status = "raised"
                      => /\ fetch[t].path \notin downloaded_files
                         /\ ~Exists(fs, fetch[t].path))
    /\ [][\A p \in Paths :
             (p \in downloaded_files' /\ p \notin downloaded_files)
             => \E t \in Tasks :
                   /\ pc[t] = "fetch_wait"
                   /\ fetch[t].path = p
                   /\ out'[t].fetched = [status |-> "returned", content |-> fs'[p]]
                   /\ Exists(fs', p)]_vars

\* a run has written and tracked one manifest, and the fetch of the next one
\* has raised: that one is neither on local storage nor tracked
C19_Witness ==
    /\ entry[1] = "run"
    /\ out[1].fetched.status = "raised"
    /\ fetch[1].path = P_1000_75
    /\ downloaded_files = {P_1000_50}
    /\ fs[P_1000_50] = Blob(out[1].repo_info.sha, P_1000_50)
    /\ ~Exists(fs, P_1000_75)

\* C20: run returns files only when handle_depot_files has returned a
\* depot-key list that is not empty and nothing was raised.  When the tree
\* gave no parsed key entry, run returns (False, []) whatever was downloaded
\* and tracked; and every path run returns is tracked by that run and is on
\* local storage.
C20_FilesOnlyWithKeys ==
    \A t \in Tasks :
       (entry[t] = "run" /\ pc[t] = "done")
       => /\ out[t].ret.status = "returned"
          /\ out[t].ret.files # {}
                => /\ out[t].handle.status = "returned"
                   /\ out[t].handle.depot_list # <<>>
                   /\ out[t].raised = NoError
          /\ (out[t].handle.status = "returned" /\ out[t].handle.depot_list = <<>>)
                => out[t].ret = [status |-> "returned", success |-> FALSE, files |-> {}]
          /\ out[t].ret.files \subseteq downloaded_files
          /\ \A p \in out[t].ret.files : Exists(fs, p)

\* the tree of commit 2 holds two manifests and a key file without any key:
\* both manifests were downloaded and tracked, and run returned (False, [])
C20_Witness ==
    /\ entry[1] = "run"
    /\ pc[1] = "done"
    /\ walk[1].tree = <<P_1000_50, P_1000_75, P_Key>>
    /\ out[1].handle.status = "returned"
    /\ out[1].handle.depot_list = <<>>
    /\ downloaded_files = {P_1000_50, P_1000_75}
    /\ out[1].ret = [status |-> "returned", success |-> FALSE, files |-> {}]

====
